---- MODULE Spec2Model ----
(***************************************************************************)
(* Booking / payment flow of the Stripe + Eveve test app.                  *)
(*                                                                         *)
(* The model covers the FlowContext reducer store and the components that  *)
(* drive it: the UnifiedBookingForm that App.jsx mounts, and the earlier   *)
(* three-form flow (BookingForm, StripePaymentForm, UserDetailsForm),      *)
(* whose components gate themselves on the flow state.  Every async        *)
(* handler is cut at its awaits: one action for the synchronous part that  *)
(* issues the request, one action for the continuation that runs when the  *)
(* response arrives.  A handler that is waiting is a record in `tasks`; it *)
(* carries the values its closure captured when it was started.            *)
(***************************************************************************)
EXTENDS Integers, Sequences, FiniteSets, TLC

VARIABLES
  app,            \* component tree mounted: "unified" | "single" | "stepwise"
  ctx,            \* FlowContext reducer state
  form,           \* UnifiedBookingForm local state (useState hooks)
  stripePromise,  \* wrapper state: Stripe.js loaded
  header,         \* Header local state
  bf,             \* BookingForm local state
  spf,            \* StripePaymentForm local state (lost on unmount)
  udf,            \* UserDetailsForm local state (lost on unmount)
  tasks,          \* async handler invocations waiting at an await
  holds,          \* number of hold requests sent so far
  net             \* user/network events emitted by the last step, in order

vars == <<app, ctx, form, stripePromise, header, bf, spf, udf, tasks, holds, net>>

----------------------------------------------------------------------------
(* Bounds of the model *)

\* booking identifiers the provider hands out: the k-th hold request gets
\* uid k, and no hold is requested beyond the MaxUid-th
MaxUid == 2
\* handler invocations that may be waiting at the same time
MaxTasks == 2

----------------------------------------------------------------------------
(* Values *)

NULL == "null"
\* absent identifier / secret (JS null or undefined)
NoId == << >>

FLOW_STATES ==
  [ IDLE |-> "idle", HOLDING |-> "holding", AWAITING_STRIPE |-> "awaitingStripe",
    ENTERING_CARD |-> "enteringCard", CARD_CONFIRMED |-> "cardConfirmed",
    COLLECTING_USER |-> "collectingUser", COMPLETED |-> "completed",
    ERROR |-> "error" ]

NoBooking == [uid |-> 0, created |-> 0, card |-> 0, perHead |-> 0]

\* stripe.paymentIntentId and stripe.intentType are read by UserDetailsForm
\* but no reducer case ever writes them: they stay undefined.
initialState ==
  [ booking |-> NoBooking,
    stripe |-> [ clientSecret |-> NoId, publicKey |-> NULL, cust |-> NULL,
                 paymentType |-> NULL, amount |-> -1, currency |-> NULL,
                 paymentIntentId |-> NoId, intentType |-> NULL ],
    paymentMethod |-> NoId,
    flowState |-> FLOW_STATES.IDLE,
    logs |-> {},
    error |-> NULL,
    holdExpiry |-> NULL,
    customerDetails |-> [name |-> "", email |-> ""] ]

----------------------------------------------------------------------------
(* flowReducer: one operator per action type *)

\* holdExpiry is kept relative to the clock: "armed" while Date.now() is
\* before the timestamp, "passed" once the three minutes are over
SET_BOOKING(s, payload) ==
  [s EXCEPT !.booking = payload, !.holdExpiry = "armed"]

\* SET_STRIPE_KEYS as it would be if it kept the customer reference it has
SET_STRIPE_KEYS_KeepCust(s, payload) ==
  [s EXCEPT !.stripe.clientSecret = payload.clientSecret,
            !.stripe.publicKey = payload.publicKey,
            !.stripe.cust = s.stripe.cust]

SET_STRIPE_KEYS(s, payload) ==
  [s EXCEPT !.stripe.clientSecret = payload.clientSecret,
            !.stripe.publicKey = payload.publicKey,
            !.stripe.cust = payload.cust]

\* SET_PAYMENT_TYPE as it would be if it classified by the hold's card flag
SET_PAYMENT_TYPE_ByCard(s, payload) ==
  [s EXCEPT !.stripe.paymentType =
              IF s.booking.card = 1 THEN "noshow" ELSE "deposit",
            !.stripe.amount = payload.total,
            !.stripe.currency = payload.currency]

SET_PAYMENT_TYPE(s, payload) ==
  [s EXCEPT !.stripe.paymentType = IF payload.code = 1 THEN "noshow" ELSE "deposit",
            !.stripe.amount = payload.total,
            !.stripe.currency = payload.currency]

\* SET_FLOW_STATE as it would be if the completed state could not be entered
SET_FLOW_STATE_NeverCompleted(s, payload) ==
  IF payload = FLOW_STATES.COMPLETED THEN s ELSE [s EXCEPT !.flowState = payload]

SET_FLOW_STATE(s, payload) == [s EXCEPT !.flowState = payload]

\* logs is kept as the set of statuses logged since the last reset
ADD_LOG(s, label, status) ==
  [s EXCEPT !.logs = @ \cup {status}]

SET_ERROR(s, payload) ==
  [s EXCEPT !.error = payload, !.flowState = FLOW_STATES.ERROR]

SET_PAYMENT_METHOD(s, payload) == [s EXCEPT !.paymentMethod = payload]

RESET_STATE(s) == initialState

\* The store action behind setCustomerDetails, which UnifiedBookingForm takes
\* from useFlow(); the FlowContext file at hand does not define it.
SET_CUSTOMER_DETAILS(s, payload) == [s EXCEPT !.customerDetails = payload]

logApiCall(s, label, error) ==
  IF error = NULL
    THEN ADD_LOG(s, label, "success")
    ELSE SET_ERROR(ADD_LOG(s, label, "error"), error)

logInfo(s) == ADD_LOG(s, "INFO", "info")
logSuccess(s) == ADD_LOG(s, "SUCCESS", "success")
logError(s) == ADD_LOG(s, "ERROR", "error")

\* isCardRequired as it would be if it only asked for a booking
isCardRequired_AnyBooking(s) == s.booking # NoBooking

isCardRequired(s) == s.booking # NoBooking /\ s.booking.card > 0
isDepositRequired(s) == s.stripe.paymentType = "deposit"

----------------------------------------------------------------------------
(* api/eveve.js and api/stripe.js *)

\* outcome of an Eveve request: HTTP 200 with ok/fields present, HTTP 200
\* without them, or a transport / HTTP failure (axios rejects)
Outcomes == {"ok", "notok", "httperr"}

\* the response interceptor as it would be if logging a rejected call did not
\* touch the error of the store
interceptor_LogOnly(s, op, out) ==
  IF out = "httperr" THEN ADD_LOG(s, op, "error") ELSE logApiCall(s, op, NULL)

\* axios response interceptor: logs every call; a rejected call is logged
\* with its error, which logApiCall turns into SET_ERROR
interceptor(s, op, out) ==
  IF out = "httperr" THEN logApiCall(s, op, "http") ELSE logApiCall(s, op, NULL)

\* secrets and identifiers are <<prefix, n>>: "seti_n", "pi_n", "pm_n"
getIntentType(clientSecret) ==
  IF clientSecret = NoId THEN NULL
  ELSE IF clientSecret[1] = "seti" THEN "setup_intent"
  ELSE IF clientSecret[1] = "pi" THEN "payment_intent"
  ELSE "payment_intent"

\* what stripe.confirmCardSetup / confirmCardPayment resolves with on success:
\* the intent (its id is the secret's prefix part) and the payment method
ConfirmResult(clientSecret) ==
  [ id |-> clientSecret, payment_method |-> <<"pm", clientSecret[2]>> ]

NoResult == [ id |-> NoId, payment_method |-> NoId ]

\* the name of the Stripe.js call a confirmation makes
ConfirmOp(clientSecret) ==
  IF getIntentType(clientSecret) = "setup_intent"
    THEN "confirmCardSetup" ELSE "confirmCardPayment"

HoldData == [card : 0..2]
SecretKinds == {"seti", "pi"}
\* code 1 (no-show) and 2 (deposit) are the documented values; 3 stands for any other
\* total is in minor currency units (cents)
Totals == {2550}
DepositData == [code : 1..3, total : Totals, currency : {"NZD"}]

bookingData(d) ==
  [ uid |-> holds, created |-> 1000 + holds, card |-> d.card,
    perHead |-> IF d.card = 0 THEN 0 ELSE 3000 ]

----------------------------------------------------------------------------
(* Events and tasks *)

NoDetails == [name |-> "", email |-> "", phone |-> ""]

\* the field names of the client secret and of the publishable key in a
\* pi-get response; NoNames when the response has neither
NoNames == [secret |-> "", key |-> ""]
Aliases ==
  [secret : {"client_secret", "clientSecret"},
   key : {"public_key", "publishableKey", "stripePK"}]
\* the names fetchStripeKeys reads: response.data.client_secret and
\* response.data.public_key
ReadNames == [secret |-> "client_secret", key |-> "public_key"]
\* what a pi-get response can look like for each outcome: "ok" is a response
\* in which the handler finds both fields
FieldNames(out) ==
  CASE out = "ok" -> {ReadNames}
    [] out = "notok" -> (Aliases \ {ReadNames}) \cup {NoNames}
    [] OTHER -> {NoNames}

\* a decimal number of major currency units: units.cents
NoFloat == [units |-> -1, cents |-> 0]
\* amount / 100; the amount of the store is -1 while it is null, and
\* null / 100 is 0
DivideBy100(a) ==
  IF a = -1 THEN [units |-> 0, cents |-> 0]
            ELSE [units |-> a \div 100, cents |-> a % 100]

\* code is the code field of a deposit-get response, 0 on any other event;
\* url is the set of query parameters of a hold request, empty otherwise;
\* cust is what a request carries of the customer's name, e-mail and phone;
\* total and totalFloat are the amount parameters of a pm-id request;
\* names are the field names under which a pi-get response has its keys
Ev(op, dir, out, uid, pm, stale) ==
  [op |-> op, dir |-> dir, out |-> out, uid |-> uid, pm |-> pm, stale |-> stale,
   code |-> 0, url |-> {}, cust |-> NoDetails, total |-> -1, totalFloat |-> NoFloat,
   names |-> NoNames]

Req(op, t, pm) == Ev(op, "req", "sent", t.bk.uid, pm, t.stale)
Resp(op, t, out) == Ev(op, "resp", out, t.bk.uid, NoId, t.stale)
\* pmIdParams as they would be with the total converted to major units
PmIdReq_MajorUnits(t, pm) ==
  [Req("pm-id", t, pm) EXCEPT !.total = t.st.amount \div 100,
                              !.totalFloat = DivideBy100(t.st.amount)]
\* pmIdParams: total: stripeContext.amount, totalFloat: stripeContext.amount / 100
PmIdReq(t, pm) ==
  [Req("pm-id", t, pm) EXCEPT !.total = t.st.amount,
                              !.totalFloat = DivideBy100(t.st.amount)]
\* a request whose parameters include customer details d
ReqWith(op, t, pm, d) == [Req(op, t, pm) EXCEPT !.cust = d]
\* customerDescription of fetchStripeKeys and billingDetails of
\* processPayment: name and e-mail
NameAndEmail(d) == [name |-> d.name, email |-> d.email, phone |-> ""]
\* a pi-get response; one that has the keys carries the client secret it
\* returns in pm and the field names it uses in names
KeysResp(t, out, kind, names) ==
  [Resp("pi-get", t, out) EXCEPT
     !.pm = IF names # NoNames THEN <<kind, t.bk.uid>> ELSE NoId,
     !.names = names]
\* processHold: the hold request carries the parameters parsed from the URL
HoldReq(url) == [Ev("hold", "req", "sent", 0, NoId, FALSE) EXCEPT !.url = url]
DepositResp(t, out, d) == [Resp("deposit-get", t, out) EXCEPT !.code = d.code]

\* a waiting handler: h the handler, pc the await it is at, bk / st / cc the
\* booking, stripe context and cardComplete its closure captured, pay / upd
\* the two promises of Promise.all, res the confirm result, pm the identifier
\* handed to pm-id, cd the customer or billing details its closure captured,
\* stale whether the store was reset since it started, det
\* whether the component instance that started it has been unmounted
FreeId == CHOOSE i \in 1..MaxTasks : \A t \in tasks : t.id # i

Task(h, pc, s, cc) ==
  [ id |-> FreeId, h |-> h, pc |-> pc, bk |-> s.booking, st |-> s.stripe, cc |-> cc,
    pay |-> "none", upd |-> "none", res |-> NoResult, pm |-> NoId,
    cd |-> NoDetails, stale |-> FALSE, det |-> FALSE ]

MarkStale(ts) == { [t EXCEPT !.stale = TRUE] : t \in ts }

CanStart == Cardinality(tasks) < MaxTasks

----------------------------------------------------------------------------
(* Component-local state *)


FormInit ==
  [ isLoading |-> FALSE, urlError |-> FALSE,
    holdComplete |-> FALSE, customerDetailsComplete |-> FALSE,
    keysLoaded |-> FALSE, depositInfoLoaded |-> FALSE,
    cardComplete |-> FALSE, paymentProcessed |-> FALSE,
    paymentMethodAttached |-> FALSE, bookingComplete |-> FALSE,
    customerDetails |-> NoDetails, cardError |-> "", currentStep |-> "idle" ]

\* the block of setters shared by handleSubmit and the reset effect
ResetLocal(f) ==
  [f EXCEPT !.holdComplete = FALSE, !.customerDetailsComplete = FALSE,
            !.keysLoaded = FALSE, !.depositInfoLoaded = FALSE,
            !.cardComplete = FALSE, !.paymentProcessed = FALSE,
            !.paymentMethodAttached = FALSE, !.bookingComplete = FALSE,
            !.customerDetails = NoDetails, !.cardError = "",
            !.currentStep = "idle"]

\* useEffect(..., [flowState]): runs after a render in which flowState
\* changed, and resets the local state if the new value is IDLE
ResetEffect(f, oldFlow, newFlow) ==
  IF oldFlow # newFlow /\ newFlow = FLOW_STATES.IDLE THEN ResetLocal(f) ELSE f

HeaderInit == [showExpiryWarning |-> FALSE]

BfInit == [isLoading |-> FALSE, urlError |-> FALSE]

SpfInit ==
  [ isProcessing |-> FALSE, cardComplete |-> FALSE, name |-> "",
    cardError |-> "", currentStep |-> "enterDetails",
    validatedBooking |-> FALSE, paymentResult |-> NoId, pmIdAttached |-> FALSE ]

UdfInit ==
  [ isLoading |-> FALSE, showSuccess |-> FALSE, formData |-> NoDetails ]

Init ==
  /\ app \in {"unified", "single", "stepwise"}
  /\ ctx = initialState
  /\ form = FormInit
  /\ stripePromise = FALSE
  /\ header = HeaderInit
  /\ bf = BfInit
  /\ spf = SpfInit
  /\ udf = UdfInit
  /\ tasks = {}
  /\ holds = 0
  /\ net = << >>

Legacy == UNCHANGED <<bf, spf, udf>>

\* StripePaymentFormWrapper renders the payment form only in ENTERING_CARD and
\* once Stripe.js is loaded; the form's local state is lost when it unmounts
\* and the handlers it started keep running detached from it.
SpfMounted(c, sp) == c.flowState = FLOW_STATES.ENTERING_CARD /\ sp

SpfHandlers ==
  { "StripePaymentForm.handleSubmit", "validateBooking", "processPayment",
    "attachPaymentMethod" }

Detach(ts, c, sp) ==
  { IF t.h \in SpfHandlers /\ ~SpfMounted(c, sp)
      THEN [t EXCEPT !.det = TRUE] ELSE t : t \in ts }

\* the frame of a step of the three-form flow: new store c, payment form
\* state s if it stays mounted, waiting handlers ts
Render(c, s, ts) ==
  /\ ctx' = c
  /\ spf' = IF SpfMounted(c, stripePromise) THEN s ELSE SpfInit
  /\ tasks' = Detach(ts, c, stripePromise)

----------------------------------------------------------------------------
(* Header: Reset button (always enabled); the forms' own Reset buttons call
   the same resetState *)

Reset ==
  /\ IF app = "unified"
       THEN /\ ctx' = RESET_STATE(ctx)
            /\ form' = ResetEffect(form, ctx.flowState, ctx'.flowState)
            /\ tasks' = MarkStale(tasks)
            /\ UNCHANGED spf
       ELSE /\ Render(RESET_STATE(ctx), spf, MarkStale(tasks))
            /\ UNCHANGED form
  /\ net' = << Ev("reset", "ui", "done", 0, NoId, FALSE) >>
  /\ UNCHANGED <<app, header, holds, stripePromise, bf, udf>>

----------------------------------------------------------------------------
(* UnifiedBookingForm: inputs *)

Unified == app = "unified"

Names == {"", "Ann"}
Emails == {"", "ann", "ann@ex.nz"}
Phones == {"", "12", "021 555 123"}

\* /^[^\s@]+@[^\s@]+\.[^\s@]+$/ and /^[+\d\s()-]{7,20}$/ on the inputs above
emailOk(e) == e = "ann@ex.nz"
phoneOk(p) == p = "021 555 123"

\* validateCustomerDetails as it would be without the e-mail format test
validateCustomerDetails_NoFormat(d) == d.name # "" /\ d.email # ""

validateCustomerDetails(d) == d.name # "" /\ d.email # "" /\ emailOk(d.email)

validateFullForm(d) ==
  d.name # "" /\ d.email # "" /\ emailOk(d.email) /\ d.phone # "" /\ phoneOk(d.phone)

\* a hold URL is modelled by the set of query parameters it has
Urls ==
  { {"est", "covers", "date", "time", "area"},
    {"est", "covers", "date", "time"},
    {"est", "covers", "date"} }

\* parseHoldUrl of UnifiedBookingForm as it would be without the check of time
parseHoldUrl_NoTime(url) == {"est", "covers", "date"} \subseteq url

\* parseHoldUrl of UnifiedBookingForm: area is optional
parseHoldUrl(url) == {"est", "covers", "date", "time"} \subseteq url
\* parseHoldUrl of BookingForm
BookingForm_parseHoldUrl(url) == {"est", "covers", "date", "time", "area"} \subseteq url

isFormDisabled(s) ==
  s.flowState # FLOW_STATES.IDLE /\ s.flowState # FLOW_STATES.ERROR

\* render conditions of the sections
Section2 == form.holdComplete /\ ~form.customerDetailsComplete
Section3 == form.customerDetailsComplete /\ isCardRequired(ctx)
Section4 ==
  /\ \/ form.cardComplete /\ isCardRequired(ctx)
     \/ form.customerDetailsComplete /\ ~isCardRequired(ctx)
  /\ ~form.bookingComplete
CardElementMounted ==
  /\ Section3
  /\ ctx.flowState = FLOW_STATES.ENTERING_CARD
  /\ ~form.paymentMethodAttached
  /\ stripePromise

\* handleCustomerDetailsChange on the fields of section 2 (name, email)
\* and of section 4 (phone)
handleCustomerDetailsChange ==
  /\ Unified
  /\ ~form.isLoading
  /\ \/ /\ Section2
        /\ \E n \in Names, e \in Emails :
             form' = [form EXCEPT !.customerDetails.name = n,
                                  !.customerDetails.email = e]
     \/ /\ Section4
        /\ \E p \in Phones : form' = [form EXCEPT !.customerDetails.phone = p]
  /\ net' = << >>
  /\ UNCHANGED <<app, header, holds, ctx, stripePromise, tasks>>
  /\ Legacy

saveCustomerDetails ==
  /\ Unified
  /\ Section2
  /\ ~form.isLoading
  /\ IF validateCustomerDetails(form.customerDetails)
       THEN /\ ctx' = logInfo(SET_CUSTOMER_DETAILS(ctx,
                        [name |-> form.customerDetails.name,
                         email |-> form.customerDetails.email]))
            /\ form' = [form EXCEPT !.customerDetailsComplete = TRUE,
                                    !.currentStep = "customerDetailsComplete"]
       ELSE UNCHANGED <<ctx, form>>
  /\ net' = << >>
  /\ UNCHANGED <<app, header, holds, stripePromise, tasks>>
  /\ Legacy

----------------------------------------------------------------------------
(* UnifiedBookingForm: hold *)

\* handleSubmit: parseHoldUrl, resetState, local resets, then processHold up
\* to its await
handleSubmit ==
  /\ Unified
  /\ ~isFormDisabled(ctx)
  /\ ~form.isLoading
  /\ \E url \in Urls :
       IF ~parseHoldUrl(url)
         THEN /\ form' = [form EXCEPT !.urlError = TRUE]
              /\ net' = << >>
              /\ UNCHANGED <<ctx, tasks, holds>>
         ELSE /\ CanStart
              /\ holds < MaxUid
              /\ holds' = holds + 1
              /\ ctx' = SET_FLOW_STATE(RESET_STATE(ctx), FLOW_STATES.HOLDING)
              /\ form' = [ResetLocal(form) EXCEPT !.urlError = FALSE,
                                                  !.isLoading = TRUE,
                                                  !.currentStep = "holding"]
              /\ tasks' = MarkStale(tasks)
                            \cup {Task("processHold", "hold", ctx', FALSE)}
              /\ net' = << Ev("reset", "ui", "done", 0, NoId, FALSE),
                           HoldReq(url) >>
  /\ UNCHANGED <<app, header, stripePromise>>
  /\ Legacy

\* processHold after the await
holdResponse ==
  /\ Unified
  /\ \E t \in tasks, out \in Outcomes, d \in HoldData :
       /\ t.h = "processHold"
       /\ tasks' = tasks \ {t}
       /\ net' = << Ev("hold", "resp", out, holds, NoId, t.stale) >>
       /\ IF out = "ok"
            THEN /\ ctx' = logInfo(SET_BOOKING(interceptor(ctx, "hold", out),
                                               bookingData(d)))
                 /\ form' = [form EXCEPT !.holdComplete = TRUE,
                                         !.currentStep = "holdComplete",
                                         !.isLoading = FALSE]
            ELSE /\ ctx' = SET_ERROR(logError(interceptor(ctx, "hold", out)),
                                     "Booking hold failed")
                 /\ form' = [form EXCEPT !.currentStep = "error",
                                         !.isLoading = FALSE]
  /\ UNCHANGED <<app, header, holds, stripePromise>>
  /\ Legacy

----------------------------------------------------------------------------
(* UnifiedBookingForm: payment setup (manual step controls of section 3) *)

ManualControls == Section3 /\ ~form.paymentMethodAttached /\ ~form.isLoading

\* fetchStripeKeys as it would be if its button stayed enabled once the keys are loaded
fetchStripeKeys_Again ==
  /\ Unified
  /\ ManualControls
  /\ ctx.booking # NoBooking
  /\ form.customerDetailsComplete
  /\ CanStart
  /\ ctx' = SET_FLOW_STATE(ctx, FLOW_STATES.AWAITING_STRIPE)
  /\ form' = [form EXCEPT !.isLoading = TRUE, !.currentStep = "fetchingKeys"]
  /\ LET t == Task("fetchStripeKeys", "pi-get", ctx, form.cardComplete) IN
       /\ tasks' = tasks \cup {t}
       /\ net' = << ReqWith("pi-get", t, NoId, NameAndEmail(form.customerDetails)) >>
  /\ UNCHANGED <<app, header, holds, stripePromise>>
  /\ Legacy

fetchStripeKeys ==
  /\ Unified
  /\ ManualControls
  /\ ~form.keysLoaded
  /\ ctx.booking # NoBooking
  /\ form.customerDetailsComplete
  /\ CanStart
  /\ ctx' = SET_FLOW_STATE(ctx, FLOW_STATES.AWAITING_STRIPE)
  /\ form' = [form EXCEPT !.isLoading = TRUE, !.currentStep = "fetchingKeys"]
  /\ LET t == Task("fetchStripeKeys", "pi-get", ctx, form.cardComplete) IN
       /\ tasks' = tasks \cup {t}
       /\ net' = << ReqWith("pi-get", t, NoId, NameAndEmail(form.customerDetails)) >>
  /\ UNCHANGED <<app, header, holds, stripePromise>>
  /\ Legacy

\* piGetResponse as it would be if a failed pi-get were sent again by the handler
piGetResponse_Retry ==
  /\ Unified
  /\ \E t \in tasks, out \in Outcomes, kind \in SecretKinds :
     \E names \in FieldNames(out) :
       /\ t.h = "fetchStripeKeys"
       /\ IF out = "ok"
            THEN /\ tasks' = tasks \ {t}
                 /\ net' = << KeysResp(t, out, kind, names) >>
                 /\ ctx' = logInfo(SET_STRIPE_KEYS(interceptor(ctx, "pi-get", out),
                             [clientSecret |-> <<kind, t.bk.uid>>,
                              publicKey |-> "pk_test", cust |-> "cus"]))
                 /\ form' = [form EXCEPT !.keysLoaded = TRUE,
                                         !.currentStep = "keysLoaded",
                                         !.isLoading = FALSE]
            ELSE /\ tasks' = tasks
                 /\ net' = << KeysResp(t, out, kind, names), Req("pi-get", t, NoId) >>
                 /\ ctx' = interceptor(ctx, "pi-get", out)
                 /\ form' = form
  /\ UNCHANGED <<app, header, holds, stripePromise>>
  /\ Legacy

piGetResponse ==
  /\ Unified
  /\ \E t \in tasks, out \in Outcomes, kind \in SecretKinds :
     \E names \in FieldNames(out) :
       /\ t.h = "fetchStripeKeys"
       /\ tasks' = tasks \ {t}
       /\ net' = << KeysResp(t, out, kind, names) >>
       /\ IF out = "ok"
            THEN /\ ctx' = logInfo(SET_STRIPE_KEYS(interceptor(ctx, "pi-get", out),
                             [clientSecret |-> <<kind, t.bk.uid>>,
                              publicKey |-> "pk_test", cust |-> "cus"]))
                 /\ form' = [form EXCEPT !.keysLoaded = TRUE,
                                         !.currentStep = "keysLoaded",
                                         !.isLoading = FALSE]
            ELSE /\ ctx' = SET_ERROR(logError(interceptor(ctx, "pi-get", out)),
                                     "Failed to retrieve Stripe keys")
                 /\ form' = [form EXCEPT !.currentStep = "error",
                                         !.isLoading = FALSE]
  /\ UNCHANGED <<app, header, holds, stripePromise>>
  /\ Legacy

\* fetchDepositInfo as it would be if its button were enabled without keysLoaded
fetchDepositInfo_AnyTime ==
  /\ Unified
  /\ ManualControls
  /\ ~form.depositInfoLoaded
  /\ ctx.booking # NoBooking
  /\ CanStart
  /\ form' = [form EXCEPT !.isLoading = TRUE, !.currentStep = "fetchingDeposit"]
  /\ LET t == Task("fetchDepositInfo", "deposit-get", ctx, form.cardComplete) IN
       /\ tasks' = tasks \cup {t}
       /\ net' = << Req("deposit-get", t, NoId) >>
  /\ UNCHANGED <<app, header, holds, ctx, stripePromise>>
  /\ Legacy

fetchDepositInfo ==
  /\ Unified
  /\ ManualControls
  /\ form.keysLoaded
  /\ ~form.depositInfoLoaded
  /\ ctx.booking # NoBooking
  /\ CanStart
  /\ form' = [form EXCEPT !.isLoading = TRUE, !.currentStep = "fetchingDeposit"]
  /\ LET t == Task("fetchDepositInfo", "deposit-get", ctx, form.cardComplete) IN
       /\ tasks' = tasks \cup {t}
       /\ net' = << Req("deposit-get", t, NoId) >>
  /\ UNCHANGED <<app, header, holds, ctx, stripePromise>>
  /\ Legacy

depositGetResponse ==
  /\ Unified
  /\ \E t \in tasks, out \in Outcomes, d \in DepositData :
       /\ t.h = "fetchDepositInfo"
       /\ tasks' = tasks \ {t}
       /\ net' = << DepositResp(t, out, d) >>
       /\ IF out = "ok"
            THEN /\ ctx' = logInfo(SET_PAYMENT_TYPE(
                                     interceptor(ctx, "deposit-get", out), d))
                 /\ form' = [form EXCEPT !.depositInfoLoaded = TRUE,
                                         !.currentStep = "depositLoaded",
                                         !.isLoading = FALSE]
            ELSE /\ ctx' = SET_ERROR(logError(interceptor(ctx, "deposit-get", out)),
                                     "Failed to retrieve deposit information")
                 /\ form' = [form EXCEPT !.currentStep = "error",
                                         !.isLoading = FALSE]
  /\ UNCHANGED <<app, header, holds, stripePromise>>
  /\ Legacy

proceedToCardEntry ==
  /\ Unified
  /\ ManualControls
  /\ form.keysLoaded /\ form.depositInfoLoaded
  /\ ctx' = logInfo(SET_FLOW_STATE(ctx, FLOW_STATES.ENTERING_CARD))
  /\ form' = [form EXCEPT !.currentStep = "enteringCard"]
  /\ net' = << >>
  /\ UNCHANGED <<app, header, holds, stripePromise, tasks>>
  /\ Legacy

proceedToUserDetails ==
  /\ Unified
  /\ form.customerDetailsComplete
  /\ ctx.booking # NoBooking /\ ctx.booking.card = 0
  /\ ~form.bookingComplete
  /\ ~form.isLoading
  /\ ctx' = logInfo(SET_FLOW_STATE(ctx, FLOW_STATES.COLLECTING_USER))
  /\ form' = [form EXCEPT !.currentStep = "collectingUser"]
  /\ net' = << >>
  /\ UNCHANGED <<app, header, holds, stripePromise, tasks>>
  /\ Legacy

\* UnifiedBookingFormWrapper effect: loadStripe(publicKey) resolved
initializeStripe ==
  /\ Unified
  /\ ctx.flowState = FLOW_STATES.ENTERING_CARD
  /\ ctx.stripe.publicKey # NULL
  /\ ~stripePromise
  /\ stripePromise' = TRUE
  /\ ctx' = logInfo(ctx)
  /\ net' = << >>
  /\ UNCHANGED <<app, header, holds, form, tasks>>
  /\ Legacy

\* CardElement onChange
cardChange ==
  /\ Unified
  /\ CardElementMounted
  /\ \E complete \in BOOLEAN :
       form' = [form EXCEPT !.cardComplete = complete,
                            !.cardError = IF complete THEN "" ELSE "incomplete"]
  /\ net' = << >>
  /\ UNCHANGED <<app, header, holds, ctx, stripePromise, tasks>>
  /\ Legacy

----------------------------------------------------------------------------
(* UnifiedBookingForm: completeBooking *)

\* catch + finally of completeBooking
cbCatch(c, f) ==
  [ c |-> SET_ERROR(logError(c), "Failed to complete booking"),
    f |-> [f EXCEPT !.currentStep = "error", !.isLoading = FALSE] ]

\* tail of the try block + finally
cbDone(c, f) ==
  [ c |-> SET_FLOW_STATE(logSuccess(c), FLOW_STATES.COMPLETED),
    f |-> [f EXCEPT !.bookingComplete = TRUE,
                    !.currentStep = "bookingComplete", !.isLoading = FALSE] ]

\* completeBooking as it would be if it waited for the payment setup in every case
completeBooking_AfterKeys ==
  /\ Unified
  /\ form.keysLoaded /\ form.depositInfoLoaded
  /\ Section4
  /\ ~form.isLoading
  /\ IF ~validateFullForm(form.customerDetails)
       THEN /\ net' = << >>
            /\ UNCHANGED <<ctx, form, tasks>>
       ELSE IF ctx.booking = NoBooking
         \* booking.est on a null booking throws inside the try block
         THEN /\ ctx' = cbCatch(ctx, form).c
              /\ form' = cbCatch(ctx, form).f
              /\ net' = << >>
              /\ UNCHANGED tasks
         ELSE /\ CanStart
              /\ form' = [form EXCEPT !.isLoading = TRUE]
              /\ LET t == [Task("completeBooking", "restore", ctx,
                                form.cardComplete)
                             EXCEPT !.cd = form.customerDetails] IN
                   /\ tasks' = tasks \cup {t}
                   /\ net' = << Req("restore", t, NoId) >>
              /\ UNCHANGED ctx
  /\ UNCHANGED <<app, header, holds, stripePromise>>
  /\ Legacy

completeBooking ==
  /\ Unified
  /\ Section4
  /\ ~form.isLoading
  /\ IF ~validateFullForm(form.customerDetails)
       THEN /\ net' = << >>
            /\ UNCHANGED <<ctx, form, tasks>>
       ELSE IF ctx.booking = NoBooking
         \* booking.est on a null booking throws inside the try block
         THEN /\ ctx' = cbCatch(ctx, form).c
              /\ form' = cbCatch(ctx, form).f
              /\ net' = << >>
              /\ UNCHANGED tasks
         ELSE /\ CanStart
              /\ form' = [form EXCEPT !.isLoading = TRUE]
              /\ LET t == [Task("completeBooking", "restore", ctx,
                                form.cardComplete)
                             EXCEPT !.cd = form.customerDetails] IN
                   /\ tasks' = tasks \cup {t}
                   /\ net' = << Req("restore", t, NoId) >>
              /\ UNCHANGED ctx
  /\ UNCHANGED <<app, header, holds, stripePromise>>
  /\ Legacy

\* completeBooking after the restore await: the card branch starts
\* processPayment() and updateBooking() together (Promise.all); each runs up
\* to its own await before control returns
restoreResponse ==
  /\ Unified
  /\ \E t \in tasks, out \in Outcomes :
       /\ t.h = "completeBooking" /\ t.pc = "restore"
       /\ LET c0 == interceptor(ctx, "restore", out)
              c1 == logInfo(c0)
              \* processPayment: confirm is sent unless Stripe.js rejects the
              \* call locally (no secret, or the card element is not mounted)
              sendsConfirm == stripePromise /\ t.cc /\ CardElementMounted
                                /\ t.st.clientSecret # NoId
              c2 == IF stripePromise /\ t.cc THEN logInfo(c1) ELSE c1
              c3 == IF sendsConfirm THEN c2 ELSE logError(c2)
          IN
          IF out # "ok"
            THEN /\ ctx' = cbCatch(c0, form).c
                 /\ form' = cbCatch(c0, form).f
                 /\ tasks' = tasks \ {t}
                 /\ net' = << Resp("restore", t, out) >>
          ELSE IF t.bk.card > 0 /\ t.cc
            THEN /\ ctx' = logInfo(c3)
                 /\ form' = [form EXCEPT !.cardError = "",
                                         !.currentStep = "processingPayment"]
                 /\ tasks' = (tasks \ {t}) \cup
                      {[t EXCEPT !.pc = "both",
                                 !.pay = IF sendsConfirm THEN "pending" ELSE "fail",
                                 !.upd = "pending"]}
                 /\ net' = << Resp("restore", t, out) >>
                      \o (IF sendsConfirm
                            THEN << ReqWith(ConfirmOp(t.st.clientSecret), t, NoId,
                                            NameAndEmail(t.cd)) >>
                            ELSE << >>)
                      \o << ReqWith("update", t, NoId, t.cd) >>
            ELSE /\ ctx' = logInfo(c1)
                 /\ form' = form
                 /\ tasks' = (tasks \ {t}) \cup
                      {[t EXCEPT !.pc = "update", !.upd = "pending"]}
                 /\ net' = << Resp("restore", t, out),
                              ReqWith("update", t, NoId, t.cd) >>
  /\ UNCHANGED <<app, header, holds, stripePromise>>
  /\ Legacy

\* completeBooking after Promise.all settled: t0 is the waiting task, t the
\* same task with both results filled in
cbJoin(c, f, t0, t, evs) ==
  IF t.pay # "ok" \/ t.upd # "ok"
    THEN /\ ctx' = cbCatch(c, f).c
         /\ form' = cbCatch(c, f).f
         /\ tasks' = tasks \ {t0}
         /\ net' = evs
    \* attachPaymentMethod(paymentResult.paymentMethodId) up to its await
    ELSE /\ ctx' = c
         /\ form' = [f EXCEPT !.currentStep = "attachingPaymentMethod"]
         /\ tasks' = (tasks \ {t0})
                       \cup {[t EXCEPT !.pc = "pm-id", !.pm = t.res.payment_method]}
         /\ net' = evs \o << PmIdReq(t, t.res.payment_method) >>

\* processPayment after its await (stripe.confirmCardSetup / confirmCardPayment)
confirmResponse ==
  /\ Unified
  /\ \E t \in tasks, ok \in BOOLEAN :
       /\ t.h = "completeBooking" /\ t.pc = "both" /\ t.pay = "pending"
       /\ LET op == ConfirmOp(t.st.clientSecret)
              res == IF ok THEN ConfirmResult(t.st.clientSecret) ELSE NoResult
              t1 == [t EXCEPT !.pay = IF ok THEN "ok" ELSE "fail", !.res = res]
              c1 == IF ok
                      THEN logSuccess(SET_PAYMENT_METHOD(ctx, res.payment_method))
                      ELSE logError(ctx)
              f1 == IF ok THEN [form EXCEPT !.paymentProcessed = TRUE] ELSE form
              evs == << Resp(op, t, IF ok THEN "ok" ELSE "fail") >>
          IN IF t.upd = "pending"
               THEN /\ ctx' = c1
                    /\ form' = f1
                    /\ tasks' = (tasks \ {t}) \cup {t1}
                    /\ net' = evs
               ELSE cbJoin(c1, f1, t, t1, evs)
  /\ UNCHANGED <<app, header, holds, stripePromise>>
  /\ Legacy

\* updateBooking after its await, in either branch of completeBooking
updateResponse ==
  /\ Unified
  /\ \E t \in tasks, out \in Outcomes :
       /\ t.h = "completeBooking" /\ t.pc \in {"both", "update"}
       /\ t.upd = "pending"
       /\ LET c0 == interceptor(ctx, "update", out)
              c1 == IF out = "ok" THEN logSuccess(c0) ELSE logError(c0)
              t1 == [t EXCEPT !.upd = IF out = "ok" THEN "ok" ELSE "fail"]
              evs == << Resp("update", t, out) >>
          IN IF t.pc = "both"
               THEN IF t.pay = "pending"
                      THEN /\ ctx' = c1
                           /\ form' = form
                           /\ tasks' = (tasks \ {t}) \cup {t1}
                           /\ net' = evs
                      ELSE cbJoin(c1, form, t, t1, evs)
               ELSE /\ tasks' = tasks \ {t}
                    /\ net' = evs
                    /\ IF out = "ok"
                         THEN /\ ctx' = cbDone(c1, form).c
                              /\ form' = cbDone(c1, form).f
                         ELSE /\ ctx' = cbCatch(c1, form).c
                              /\ form' = cbCatch(c1, form).f
  /\ UNCHANGED <<app, header, holds, stripePromise>>
  /\ Legacy

\* attachPaymentMethod after its await, then the rest of completeBooking
pmIdResponse ==
  /\ Unified
  /\ \E t \in tasks, out \in Outcomes :
       /\ t.h = "completeBooking" /\ t.pc = "pm-id"
       /\ tasks' = tasks \ {t}
       /\ net' = << Resp("pm-id", t, out) >>
       /\ LET c0 == interceptor(ctx, "pm-id", out) IN
            IF out = "ok"
              THEN LET f1 == [form EXCEPT !.paymentMethodAttached = TRUE] IN
                     /\ ctx' = cbDone(logSuccess(c0), f1).c
                     /\ form' = cbDone(logSuccess(c0), f1).f
              ELSE /\ ctx' = cbCatch(logError(c0), form).c
                   /\ form' = cbCatch(logError(c0), form).f
  /\ UNCHANGED <<app, header, holds, stripePromise>>
  /\ Legacy

----------------------------------------------------------------------------
(* BookingForm (three-form flow): hold, then keys and deposit in one handler *)

ThreeForms == app # "unified"

BookingForm_handleSubmit ==
  /\ ThreeForms
  /\ ~isFormDisabled(ctx)
  /\ ~bf.isLoading
  /\ \E url \in Urls :
       IF ~BookingForm_parseHoldUrl(url)
         THEN /\ bf' = [bf EXCEPT !.urlError = TRUE]
              /\ net' = << >>
              /\ UNCHANGED <<ctx, spf, tasks, holds>>
         ELSE /\ CanStart
              /\ holds < MaxUid
              /\ holds' = holds + 1
              /\ bf' = [isLoading |-> TRUE, urlError |-> FALSE]
              /\ LET c == SET_FLOW_STATE(RESET_STATE(ctx), FLOW_STATES.HOLDING) IN
                   Render(c, spf, MarkStale(tasks)
                            \cup {Task("BookingForm.processHold", "hold", c, FALSE)})
              /\ net' = << Ev("reset", "ui", "done", 0, NoId, FALSE),
                           HoldReq(url) >>
  /\ UNCHANGED <<app, header, form, stripePromise, udf>>

\* processHold after the hold await; with a card it runs on into
\* fetchStripeKeys(bookingData) up to the pi-get await
BookingForm_holdResponse ==
  /\ ThreeForms
  /\ \E t \in tasks, out \in Outcomes, d \in HoldData :
       /\ t.h = "BookingForm.processHold" /\ t.pc = "hold"
       /\ LET c0 == interceptor(ctx, "hold", out)
              c1 == logInfo(SET_BOOKING(c0, bookingData(d)))
              t1 == [t EXCEPT !.pc = "pi-get", !.bk = bookingData(d)]
              ev == Ev("hold", "resp", out, holds, NoId, t.stale)
          IN
          IF out # "ok"
            THEN /\ Render(SET_ERROR(logError(c0), "Booking hold failed"),
                           spf, tasks \ {t})
                 /\ bf' = [bf EXCEPT !.isLoading = FALSE]
                 /\ net' = << ev >>
          ELSE IF d.card > 0
            THEN /\ Render(SET_FLOW_STATE(c1, FLOW_STATES.AWAITING_STRIPE),
                           spf, (tasks \ {t}) \cup {t1})
                 /\ bf' = bf
                 /\ net' = << ev, Req("pi-get", t1, NoId) >>
            ELSE /\ Render(logInfo(SET_FLOW_STATE(c1, FLOW_STATES.COLLECTING_USER)),
                           spf, tasks \ {t})
                 /\ bf' = [bf EXCEPT !.isLoading = FALSE]
                 /\ net' = << ev >>
  /\ UNCHANGED <<app, header, holds, form, stripePromise, udf>>

\* fetchStripeKeys after its await, then fetchDepositInfo up to its await
BookingForm_piGetResponse ==
  /\ ThreeForms
  /\ \E t \in tasks, out \in Outcomes, kind \in SecretKinds :
     \E names \in FieldNames(out) :
       /\ t.h = "BookingForm.processHold" /\ t.pc = "pi-get"
       /\ LET c0 == interceptor(ctx, "pi-get", out)
              t1 == [t EXCEPT !.pc = "deposit-get"]
          IN
          IF out = "ok"
            THEN /\ Render(logInfo(SET_STRIPE_KEYS(c0,
                             [clientSecret |-> <<kind, t.bk.uid>>,
                              publicKey |-> "pk_test", cust |-> "cus"])),
                           spf, (tasks \ {t}) \cup {t1})
                 /\ bf' = bf
                 /\ net' = << KeysResp(t, out, kind, names), Req("deposit-get", t1, NoId) >>
            ELSE /\ Render(SET_ERROR(logError(c0), "Failed to retrieve Stripe keys"),
                           spf, tasks \ {t})
                 /\ bf' = [bf EXCEPT !.isLoading = FALSE]
                 /\ net' = << KeysResp(t, out, kind, names) >>
  /\ UNCHANGED <<app, header, holds, form, stripePromise, udf>>

\* fetchDepositInfo after its await, then the end of processHold
BookingForm_depositGetResponse ==
  /\ ThreeForms
  /\ \E t \in tasks, out \in Outcomes, d \in DepositData :
       /\ t.h = "BookingForm.processHold" /\ t.pc = "deposit-get"
       /\ LET c0 == interceptor(ctx, "deposit-get", out) IN
            Render(IF out = "ok"
                     THEN SET_FLOW_STATE(logInfo(SET_PAYMENT_TYPE(c0, d)),
                                         FLOW_STATES.ENTERING_CARD)
                     ELSE SET_ERROR(logError(c0),
                                    "Failed to retrieve deposit information"),
                   spf, tasks \ {t})
       /\ bf' = [bf EXCEPT !.isLoading = FALSE]
       /\ net' = << DepositResp(t, out, d) >>
  /\ UNCHANGED <<app, header, holds, form, stripePromise, udf>>

----------------------------------------------------------------------------
(* StripePaymentForm: wrapper and inputs (both variants) *)

\* wrapper of the single-submit variant: effect that loads Stripe.js
loadStripeInstance ==
  /\ app = "single"
  /\ ctx.flowState = FLOW_STATES.ENTERING_CARD
  /\ ctx.stripe.publicKey # NULL
  /\ ~stripePromise
  /\ stripePromise' = TRUE
  /\ ctx' = logInfo(ctx)
  /\ net' = << >>
  /\ UNCHANGED <<app, header, holds, form, bf, spf, udf, tasks>>

\* wrapper of the step-by-step variant: "Initialize Stripe Elements" button
Wrapper_initializeStripe ==
  /\ app = "stepwise"
  /\ ctx.flowState = FLOW_STATES.ENTERING_CARD
  /\ ctx.stripe.publicKey # NULL
  /\ ~stripePromise
  /\ stripePromise' = TRUE
  /\ ctx' = logInfo(ctx)
  /\ net' = << >>
  /\ UNCHANGED <<app, header, holds, form, bf, spf, udf, tasks>>

\* CardElement onChange and the cardholder-name input
billingChange ==
  /\ ThreeForms
  /\ SpfMounted(ctx, stripePromise)
  /\ app = "stepwise" => spf.currentStep \in {"enterDetails", "readyForPayment"}
  /\ \E complete \in BOOLEAN, n \in Names :
       spf' = [spf EXCEPT !.cardComplete = complete, !.name = n,
                          !.cardError = IF complete THEN "" ELSE "incomplete"]
  /\ net' = << >>
  /\ UNCHANGED <<app, header, holds, ctx, form, stripePromise, bf, udf, tasks>>

\* local setState of a handler reaches the form only while the instance that
\* started the handler is mounted
Local(t, s) == IF t.det THEN spf ELSE s

----------------------------------------------------------------------------
(* StripePaymentForm, single-submit variant: handleSubmit *)

\* catch + finally of handleSubmit
spfCatch(c, t) ==
  Render(SET_ERROR(logError(c), "Payment processing failed"),
         Local(t, [spf EXCEPT !.cardError = "failed", !.isProcessing = FALSE]),
         tasks \ {t})

StripePaymentForm_handleSubmit ==
  /\ app = "single"
  /\ SpfMounted(ctx, stripePromise)
  /\ ~spf.isProcessing
  /\ spf.cardComplete
  /\ IF spf.name = ""
       THEN /\ spf' = [spf EXCEPT !.cardError = "name"]
            /\ net' = << >>
            /\ UNCHANGED <<ctx, tasks>>
       ELSE IF ctx.booking = NoBooking
         \* booking.est on a null booking throws inside the try block
         THEN /\ Render(SET_ERROR(logError(ctx), "Payment processing failed"),
                        [spf EXCEPT !.cardError = "failed"], tasks)
              /\ net' = << >>
         ELSE /\ CanStart
              /\ LET t == [Task("StripePaymentForm.handleSubmit", "restore",
                                ctx, TRUE)
                             EXCEPT !.cd = [NoDetails EXCEPT !.name = spf.name]] IN
                   /\ Render(ctx, [spf EXCEPT !.isProcessing = TRUE,
                                              !.cardError = ""],
                             tasks \cup {t})
                   /\ net' = << Req("restore", t, NoId) >>
  /\ UNCHANGED <<app, header, holds, form, stripePromise, bf, udf>>

StripePaymentForm_restoreResponse ==
  /\ app = "single"
  /\ \E t \in tasks, out \in Outcomes :
       /\ t.h = "StripePaymentForm.handleSubmit" /\ t.pc = "restore"
       /\ LET c0 == interceptor(ctx, "restore", out)
              t1 == [t EXCEPT !.pc = "confirm", !.pay = "pending"]
              \* Stripe.js rejects the call locally without a secret or
              \* with a card element that is no longer mounted
              sendsConfirm == t.st.clientSecret # NoId /\ ~t.det
                                /\ SpfMounted(c0, stripePromise)
          IN
          IF out = "ok" /\ sendsConfirm
            THEN /\ Render(logInfo(c0), spf, (tasks \ {t}) \cup {t1})
                 /\ net' = << Resp("restore", t, out),
                              ReqWith(ConfirmOp(t.st.clientSecret), t, NoId, t.cd) >>
            ELSE /\ spfCatch(c0, t)
                 /\ net' = << Resp("restore", t, out) >>
  /\ UNCHANGED <<app, header, holds, form, stripePromise, bf, udf>>

StripePaymentForm_confirmResponse ==
  /\ app = "single"
  /\ \E t \in tasks, ok \in BOOLEAN :
       /\ t.h = "StripePaymentForm.handleSubmit" /\ t.pc = "confirm"
       /\ LET res == ConfirmResult(t.st.clientSecret)
              t1 == [t EXCEPT !.pc = "pm-id", !.pay = "ok", !.res = res,
                              !.pm = res.payment_method]
              op == ConfirmOp(t.st.clientSecret)
          IN
          IF ok
            THEN /\ Render(SET_PAYMENT_METHOD(ctx, res.payment_method), spf,
                           (tasks \ {t}) \cup {t1})
                 /\ net' = << Resp(op, t, "ok"),
                              PmIdReq(t1, res.payment_method) >>
            ELSE /\ spfCatch(ctx, t)
                 /\ net' = << Resp(op, t, "fail") >>
  /\ UNCHANGED <<app, header, holds, form, stripePromise, bf, udf>>

StripePaymentForm_pmIdResponse ==
  /\ app = "single"
  /\ \E t \in tasks, out \in Outcomes :
       /\ t.h = "StripePaymentForm.handleSubmit" /\ t.pc = "pm-id"
       /\ LET c0 == interceptor(ctx, "pm-id", out) IN
            IF out = "ok"
              THEN Render(SET_FLOW_STATE(logSuccess(c0), FLOW_STATES.CARD_CONFIRMED),
                          Local(t, [spf EXCEPT !.isProcessing = FALSE]),
                          tasks \ {t})
              ELSE spfCatch(c0, t)
       /\ net' = << Resp("pm-id", t, out) >>
  /\ UNCHANGED <<app, header, holds, form, stripePromise, bf, udf>>

----------------------------------------------------------------------------
(* StripePaymentForm, step-by-step variant: four buttons *)

Stepwise == app = "stepwise" /\ SpfMounted(ctx, stripePromise) /\ ~spf.isProcessing

\* the catch + finally the three async steps share: the error is shown in
\* the form only, the store is not told
stepCatch(c, t) ==
  Render(logError(c),
         Local(t, [spf EXCEPT !.cardError = "failed", !.currentStep = "error",
                              !.isProcessing = FALSE]),
         tasks \ {t})

validateBooking ==
  /\ Stepwise
  /\ ~spf.validatedBooking
  /\ IF ctx.booking = NoBooking
       THEN /\ Render(logError(ctx),
                      [spf EXCEPT !.cardError = "failed", !.currentStep = "error"],
                      tasks)
            /\ net' = << >>
       ELSE /\ CanStart
            /\ LET t == Task("validateBooking", "restore", ctx, spf.cardComplete) IN
                 /\ Render(ctx, [spf EXCEPT !.isProcessing = TRUE, !.cardError = "",
                                            !.currentStep = "validatingBooking"],
                           tasks \cup {t})
                 /\ net' = << Req("restore", t, NoId) >>
  /\ UNCHANGED <<app, header, holds, form, stripePromise, bf, udf>>

validateBookingResponse ==
  /\ app = "stepwise"
  /\ \E t \in tasks, out \in Outcomes :
       /\ t.h = "validateBooking"
       /\ LET c0 == interceptor(ctx, "restore", out) IN
            IF out = "ok"
              THEN Render(logInfo(c0),
                          Local(t, [spf EXCEPT !.validatedBooking = TRUE,
                                               !.currentStep = "readyForPayment",
                                               !.isProcessing = FALSE]),
                          tasks \ {t})
              ELSE stepCatch(c0, t)
       /\ net' = << Resp("restore", t, out) >>
  /\ UNCHANGED <<app, header, holds, form, stripePromise, bf, udf>>

processPayment ==
  /\ Stepwise
  /\ spf.validatedBooking
  /\ spf.paymentResult = NoId
  /\ IF ~spf.cardComplete \/ spf.name = ""
       THEN /\ spf' = [spf EXCEPT !.cardError = "missing"]
            /\ net' = << >>
            /\ UNCHANGED <<ctx, tasks>>
       ELSE IF ctx.stripe.clientSecret = NoId
         \* Stripe.js rejects a call without a secret locally
         THEN /\ Render(logError(logInfo(ctx)),
                        [spf EXCEPT !.cardError = "failed", !.currentStep = "error"],
                        tasks)
              /\ net' = << >>
         ELSE /\ CanStart
              /\ LET t == [Task("processPayment", "confirm", ctx, TRUE)
                             EXCEPT !.pay = "pending",
                                    !.cd = [NoDetails EXCEPT !.name = spf.name]] IN
                   /\ Render(logInfo(ctx),
                             [spf EXCEPT !.isProcessing = TRUE, !.cardError = "",
                                         !.currentStep = "processingPayment"],
                             tasks \cup {t})
                   /\ net' = << ReqWith(ConfirmOp(t.st.clientSecret), t, NoId, t.cd) >>
  /\ UNCHANGED <<app, header, holds, form, stripePromise, bf, udf>>

processPaymentResponse ==
  /\ app = "stepwise"
  /\ \E t \in tasks, ok \in BOOLEAN :
       /\ t.h = "processPayment"
       /\ LET res == ConfirmResult(t.st.clientSecret)
              op == ConfirmOp(t.st.clientSecret)
          IN
          IF ok
            THEN /\ Render(logSuccess(SET_PAYMENT_METHOD(ctx, res.payment_method)),
                           Local(t, [spf EXCEPT !.paymentResult = res.payment_method,
                                                !.currentStep = "paymentComplete",
                                                !.isProcessing = FALSE]),
                           tasks \ {t})
                 /\ net' = << Resp(op, t, "ok") >>
            ELSE /\ stepCatch(ctx, t)
                 /\ net' = << Resp(op, t, "fail") >>
  /\ UNCHANGED <<app, header, holds, form, stripePromise, bf, udf>>

attachPaymentMethod ==
  /\ Stepwise
  /\ spf.paymentResult # NoId
  /\ ~spf.pmIdAttached
  /\ IF ctx.booking = NoBooking
       THEN /\ Render(logError(ctx),
                      [spf EXCEPT !.cardError = "failed", !.currentStep = "error"],
                      tasks)
            /\ net' = << >>
       ELSE /\ CanStart
            /\ LET t == [Task("attachPaymentMethod", "pm-id", ctx, spf.cardComplete)
                           EXCEPT !.pm = spf.paymentResult] IN
                 /\ Render(ctx, [spf EXCEPT !.isProcessing = TRUE, !.cardError = "",
                                            !.currentStep = "attachingPaymentMethod"],
                           tasks \cup {t})
                 /\ net' = << PmIdReq(t, spf.paymentResult) >>
  /\ UNCHANGED <<app, header, holds, form, stripePromise, bf, udf>>

attachPaymentMethodResponse ==
  /\ app = "stepwise"
  /\ \E t \in tasks, out \in Outcomes :
       /\ t.h = "attachPaymentMethod"
       /\ LET c0 == interceptor(ctx, "pm-id", out) IN
            IF out = "ok"
              THEN Render(logSuccess(c0),
                          Local(t, [spf EXCEPT !.pmIdAttached = TRUE,
                                               !.currentStep = "complete",
                                               !.isProcessing = FALSE]),
                          tasks \ {t})
              ELSE stepCatch(c0, t)
       /\ net' = << Resp("pm-id", t, out) >>
  /\ UNCHANGED <<app, header, holds, form, stripePromise, bf, udf>>

proceedToCustomerDetails ==
  /\ Stepwise
  /\ spf.pmIdAttached
  /\ Render(logInfo(SET_FLOW_STATE(ctx, FLOW_STATES.CARD_CONFIRMED)), spf, tasks)
  /\ net' = << >>
  /\ UNCHANGED <<app, header, holds, form, stripePromise, bf, udf>>

----------------------------------------------------------------------------
(* UserDetailsForm (three-form flow): restore, update, compensation *)

shouldShow(c) ==
  \/ c.flowState = FLOW_STATES.COLLECTING_USER
  \/ c.flowState = FLOW_STATES.CARD_CONFIRMED /\ isCardRequired(c)

validateForm(d) ==
  d.name # "" /\ d.phone # "" /\ phoneOk(d.phone) /\ d.email # "" /\ emailOk(d.email)

FormInputs ==
  { [name |-> "Ann", email |-> "ann@ex.nz", phone |-> "021 555 123"],
    [name |-> "Ann", email |-> "ann", phone |-> "021 555 123"],
    [name |-> "", email |-> "ann@ex.nz", phone |-> "12"] }

UserDetailsForm_handleChange ==
  /\ ThreeForms
  /\ shouldShow(ctx)
  /\ ~udf.isLoading /\ ~udf.showSuccess
  /\ \E d \in FormInputs : udf' = [udf EXCEPT !.formData = d]
  /\ net' = << >>
  /\ UNCHANGED <<app, header, holds, ctx, form, stripePromise, bf, spf, tasks>>

\* stripeApi.refundPayment: a placeholder that logs the call and resolves
refundPayment(c) == logApiCall(c, "Stripe refundPayment (placeholder)", NULL)

\* the refund guard as it would be if it asked only for a confirmed payment
udfRefunds_AnyConfirmed(t) == ctx.paymentMethod # NoId

\* the refund the catch block attempts, if its guard lets it
udfRefunds(t) ==
  t.st.paymentIntentId # NoId /\ t.st.intentType = "payment_intent"

\* catch + finally of handleSubmit: refund attempt, then the error state
udfCatch(c, t, evs) ==
  /\ Render(SET_ERROR(IF udfRefunds(t)
                        THEN logInfo(refundPayment(logError(c)))
                        ELSE logError(c),
                      "Failed to complete booking"),
            spf, tasks \ {t})
  /\ udf' = [udf EXCEPT !.isLoading = FALSE]
  /\ net' = evs \o (IF udfRefunds(t)
                      THEN << Req("refund", t, t.st.paymentIntentId) >>
                      ELSE << >>)

UserDetailsForm_handleSubmit ==
  /\ ThreeForms
  /\ shouldShow(ctx)
  /\ ~udf.isLoading /\ ~udf.showSuccess
  /\ IF ~validateForm(udf.formData)
       THEN /\ net' = << >>
            /\ UNCHANGED <<ctx, spf, udf, tasks>>
       ELSE /\ ctx.booking # NoBooking
            /\ CanStart
            /\ udf' = [udf EXCEPT !.isLoading = TRUE]
            /\ LET t == [Task("UserDetailsForm.handleSubmit", "restore", ctx, FALSE)
                           EXCEPT !.cd = udf.formData] IN
                 /\ Render(logInfo(ctx), spf, tasks \cup {t})
                 /\ net' = << Req("restore", t, NoId) >>
  /\ UNCHANGED <<app, header, holds, form, stripePromise, bf>>

\* the restore continuation as it would be if it stored the re-validated
\* booking, with the timestamp of the restore, as the booking
UserDetailsForm_restoreResponse_Refresh ==
  /\ ThreeForms
  /\ \E t \in tasks, out \in Outcomes :
       /\ t.h = "UserDetailsForm.handleSubmit" /\ t.pc = "restore"
       /\ LET c0 == interceptor(ctx, "restore", out)
              t1 == [t EXCEPT !.pc = "update", !.upd = "pending"]
          IN
          IF out = "ok"
            THEN /\ Render(logInfo(SET_BOOKING(c0, [t.bk EXCEPT !.created = 0])), spf, (tasks \ {t}) \cup {t1})
                 /\ udf' = udf
                 /\ net' = << Resp("restore", t, out),
                              ReqWith("update", t1, NoId, t1.cd) >>
            ELSE udfCatch(c0, t, << Resp("restore", t, out) >>)
  /\ UNCHANGED <<app, header, holds, form, stripePromise, bf>>

UserDetailsForm_restoreResponse ==
  /\ ThreeForms
  /\ \E t \in tasks, out \in Outcomes :
       /\ t.h = "UserDetailsForm.handleSubmit" /\ t.pc = "restore"
       /\ LET c0 == interceptor(ctx, "restore", out)
              t1 == [t EXCEPT !.pc = "update", !.upd = "pending"]
          IN
          IF out = "ok"
            THEN /\ Render(logInfo(c0), spf, (tasks \ {t}) \cup {t1})
                 /\ udf' = udf
                 /\ net' = << Resp("restore", t, out),
                              ReqWith("update", t1, NoId, t1.cd) >>
            ELSE udfCatch(c0, t, << Resp("restore", t, out) >>)
  /\ UNCHANGED <<app, header, holds, form, stripePromise, bf>>

UserDetailsForm_updateResponse ==
  /\ ThreeForms
  /\ \E t \in tasks, out \in Outcomes :
       /\ t.h = "UserDetailsForm.handleSubmit" /\ t.pc = "update"
       /\ LET c0 == interceptor(ctx, "update", out)
              \* the description update runs only with stripe.paymentIntentId
              c1 == IF t.st.paymentIntentId # NoId THEN logInfo(c0) ELSE c0
          IN
          IF out = "ok"
            THEN /\ Render(SET_FLOW_STATE(logSuccess(c1), FLOW_STATES.COMPLETED),
                           spf, tasks \ {t})
                 /\ udf' = [udf EXCEPT !.showSuccess = TRUE, !.isLoading = FALSE]
                 /\ net' = << Resp("update", t, out) >>
            ELSE udfCatch(c0, t, << Resp("update", t, out) >>)
  /\ UNCHANGED <<app, header, holds, form, stripePromise, bf>>

Next ==
  \/ Reset
  \/ handleCustomerDetailsChange
  \/ saveCustomerDetails
  \/ handleSubmit
  \/ holdResponse
  \/ fetchStripeKeys
  \/ piGetResponse
  \/ fetchDepositInfo
  \/ depositGetResponse
  \/ proceedToCardEntry
  \/ proceedToUserDetails
  \/ initializeStripe
  \/ cardChange
  \/ completeBooking
  \/ restoreResponse
  \/ confirmResponse
  \/ updateResponse
  \/ pmIdResponse
  \/ BookingForm_handleSubmit
  \/ BookingForm_holdResponse
  \/ BookingForm_piGetResponse
  \/ BookingForm_depositGetResponse

  \/ loadStripeInstance
  \/ Wrapper_initializeStripe
  \/ billingChange
  \/ StripePaymentForm_handleSubmit
  \/ StripePaymentForm_restoreResponse
  \/ StripePaymentForm_confirmResponse
  \/ StripePaymentForm_pmIdResponse
  \/ validateBooking
  \/ validateBookingResponse
  \/ processPayment
  \/ processPaymentResponse
  \/ attachPaymentMethod
  \/ attachPaymentMethodResponse
  \/ proceedToCustomerDetails
  \/ UserDetailsForm_handleChange
  \/ UserDetailsForm_handleSubmit
  \/ UserDetailsForm_restoreResponse
  \/ UserDetailsForm_updateResponse

Spec == Init /\ [][Next]_vars

----------------------------------------------------------------------------
(* Header: the hold countdown.  No handler reads the clock, and Spec leaves *)
(* it out; SpecClock adds the passing of the three minutes and the timer   *)
(* to the component tree that App.jsx mounts.                              *)

\* timerTick as it would be if the expired timer reset the flow
timerTick_AutoReset ==
  /\ ctx.booking # NoBooking
  /\ ctx.holdExpiry # NULL
  /\ ctx' = RESET_STATE(ctx)
  /\ header' = [header EXCEPT !.showExpiryWarning = TRUE]
  /\ net' = << >>
  /\ UNCHANGED <<app, form, stripePromise, bf, spf, udf, tasks, holds>>

\* the interval callback of the timer effect, which runs while a booking
\* exists, at or after the expiry time: getHoldTimeRemaining() gives 0
timerTick ==
  /\ ctx.booking # NoBooking
  /\ ctx.holdExpiry # NULL
  /\ ctx' = [ctx EXCEPT !.holdExpiry = "passed"]
  /\ header' = [header EXCEPT !.showExpiryWarning = TRUE]
  /\ net' = << >>
  /\ UNCHANGED <<app, form, stripePromise, bf, spf, udf, tasks, holds>>

\* the dismiss button of the expiry warning
dismissExpiryWarning ==
  /\ header.showExpiryWarning
  /\ header' = [header EXCEPT !.showExpiryWarning = FALSE]
  /\ net' = << >>
  /\ UNCHANGED <<app, ctx, form, stripePromise, bf, spf, udf, tasks, holds>>

NextClock ==
  \/ Reset
  \/ handleCustomerDetailsChange
  \/ saveCustomerDetails
  \/ handleSubmit
  \/ holdResponse
  \/ fetchStripeKeys
  \/ piGetResponse
  \/ fetchDepositInfo
  \/ depositGetResponse
  \/ proceedToCardEntry
  \/ proceedToUserDetails
  \/ initializeStripe
  \/ cardChange
  \/ completeBooking
  \/ restoreResponse
  \/ confirmResponse
  \/ updateResponse
  \/ pmIdResponse
  \/ timerTick
  \/ dismissExpiryWarning

\* the tree App.jsx mounts: Header and UnifiedBookingForm
InitClock == Init /\ app = "unified"

SpecClock == InitClock /\ [][NextClock]_vars

----------------------------------------------------------------------------
(* Vocabulary of the properties *)

\* seti_... or pi_...: the shape of an intent identifier
IntentShape(id) == id # NoId /\ id[1] \in {"seti", "pi"}

IsReq(e, op) == e.dir = "req" /\ e.op = op
IsResp(e, op) == e.dir = "resp" /\ e.op = op

\* requests a waiting handler has outstanding
Outstanding(t) ==
  IF t.pc = "both"
    THEN (IF t.pay = "pending" THEN 1 ELSE 0) + (IF t.upd = "pending" THEN 1 ELSE 0)
    ELSE 1

\* what an attempt consists of: the store's booking, keys, payment type,
\* payment method and flow state, and the form's stage-completion flags
AttemptView(c, f) ==
  << c.booking, c.stripe.clientSecret, c.stripe.publicKey, c.stripe.cust,
     c.stripe.paymentType, c.paymentMethod, c.flowState,
     f.holdComplete, f.customerDetailsComplete, f.keysLoaded,
     f.depositInfoLoaded, f.cardComplete, f.paymentProcessed,
     f.paymentMethodAttached, f.bookingComplete >>

----------------------------------------------------------------------------
(* Properties *)

\* C1: for a card-required booking the update (finalize) request is
\* outstanding only once the Stripe confirmation of that booking has
\* returned success: never while the confirmation is pending or failed.
C1_UpdateOnlyAfterConfirm ==
  \A t \in tasks :
    (~t.stale /\ t.bk.card > 0 /\ t.upd = "pending")
      => (t.pay = "ok" \/ ctx.paymentMethod = <<"pm", t.bk.uid>>)

\* C2: an invocation of the current attempt whose Stripe confirmation failed
\* has no update and no pm-id call of its own, issued or outstanding.
C2_NoCallsAfterFailedConfirm ==
  \A t \in tasks :
    (~t.stale /\ t.pay = "fail") => (t.upd # "pending" /\ t.pc # "pm-id")

\* C3: when the update of an attempt with a confirmed deposit payment fails,
\* exactly one refund is requested, and it names the intent identifier.
C3_RefundOnceWithIntentId ==
  (\E i \in DOMAIN net :
      /\ IsResp(net[i], "update") /\ net[i].out # "ok" /\ ~net[i].stale
      /\ ctx.stripe.paymentType = "deposit"
      /\ ctx.paymentMethod = <<"pm", net[i].uid>>)
    => /\ Cardinality({ j \in DOMAIN net : IsReq(net[j], "refund") }) = 1
       /\ \A j \in DOMAIN net : IsReq(net[j], "refund") => IntentShape(net[j].pm)

\* C4: the pm parameter of every pm-id request is an intent identifier
\* (seti_..., pi_...), never a payment-method identifier (pm_...).
C4_PmIdCarriesIntentId ==
  \A i \in DOMAIN net : IsReq(net[i], "pm-id") => IntentShape(net[i].pm)

\* C5: attaching with an identifier that is not of intent shape fails before
\* any network call: no handler waits on pm-id with such an identifier.
C5_AttachRejectsOtherShapes ==
  \A t \in tasks : (t.pm # NoId /\ ~IntentShape(t.pm)) => t.pc # "pm-id"

\* C6: the response of an operation that was in flight at a reset changes
\* nothing of the attempt that exists after the reset.
C6_StaleResponseIgnored ==
  [][ (\E i \in DOMAIN net' : net'[i].dir = "resp" /\ net'[i].stale)
        => AttemptView(ctx', form') = AttemptView(ctx, form) ]_vars

\* C7: Reset leaves the attempt state equal to its initial value: the whole
\* store, and every stage-completion flag of the forms.
C7_ResetRestoresInitial ==
  [][ Reset => /\ ctx' = initialState
               /\ AttemptView(ctx', form') = AttemptView(initialState, FormInit)
               /\ ~udf'.showSuccess ]_vars

\* C8: the handlers of the current attempt have at most one request
\* outstanding between them.
C8_OneRequestInFlight ==
  \A t \in tasks, u \in tasks :
    (~t.stale /\ ~u.stale) => /\ Outstanding(t) <= 1
                              /\ t # u => Outstanding(t) + Outstanding(u) <= 1

\* C9: every update request directly follows the ok response of a restore of
\* the same uid, with no other call in between.
C9_UpdateDirectlyAfterRestore ==
  \A i \in DOMAIN net :
    IsReq(net[i], "update")
      => /\ i > 1
         /\ IsResp(net[i - 1], "restore")
         /\ net[i - 1].out = "ok"
         /\ net[i - 1].uid = net[i].uid

\* C10: the flow state turns cardConfirmed only when the confirmation and the
\* pm-id call of the current attempt have both succeeded, and a card-required
\* attempt sends its update only from cardConfirmed.
C10_CardConfirmedGate ==
  [][ /\ (ctx.flowState # FLOW_STATES.CARD_CONFIRMED
            /\ ctx'.flowState = FLOW_STATES.CARD_CONFIRMED)
          => /\ ctx'.booking # NoBooking
             /\ ctx'.paymentMethod = <<"pm", ctx'.booking.uid>>
             /\ \/ spf.pmIdAttached
                \/ \E i \in DOMAIN net' :
                     /\ IsResp(net'[i], "pm-id") /\ net'[i].out = "ok"
                     /\ ~net'[i].stale
      /\ \A t \in tasks' :
           (t \notin tasks /\ ~t.stale /\ t.bk.card > 0 /\ t.upd = "pending")
             => ctx.flowState = FLOW_STATES.CARD_CONFIRMED ]_vars

\* C11: the flow state turns enteringCard only when the store holds a booking,
\* the client secret of that booking's pi-get and a payment type, i.e. both
\* fetches have succeeded for the hold currently held.
C11_EnteringCardGate ==
  [][ (ctx.flowState # FLOW_STATES.ENTERING_CARD
         /\ ctx'.flowState = FLOW_STATES.ENTERING_CARD)
        => /\ ctx'.booking # NoBooking
           /\ ctx'.stripe.clientSecret # NoId
           /\ ctx'.stripe.clientSecret[2] = ctx'.booking.uid
           /\ ctx'.stripe.paymentType # NULL ]_vars

\* C12: a deposit-get request for a hold is issued only when the pi-get of
\* that hold has succeeded, i.e. the store holds the client secret that the
\* pi-get of that uid returned.
C12_KeysBeforeDeposit ==
  \A i \in DOMAIN net :
    IsReq(net[i], "deposit-get")
      => /\ ctx.stripe.clientSecret # NoId
         /\ ctx.stripe.clientSecret[2] = net[i].uid

\* a deposit-get request is being issued by the unified form
C12_Witness ==
  /\ app = "unified"
  /\ \E i \in DOMAIN net : IsReq(net[i], "deposit-get") /\ ~net[i].stale
  /\ form.keysLoaded

\* C13: a pi-get request is issued only when the customer details of the
\* attempt have been validated and saved (a non-empty name and a well-formed
\* e-mail are in the store).
C13_DetailsBeforeKeys ==
  \A i \in DOMAIN net :
    IsReq(net[i], "pi-get")
      => /\ ctx.customerDetails.name # ""
         /\ emailOk(ctx.customerDetails.email)

\* C13 (amended): in the unified form a pi-get request is issued only when
\* the customer details have been validated and saved: the section is marked
\* complete, the details in the form are valid and the store holds them.
C13_UnifiedDetailsBeforeKeys ==
  \A i \in DOMAIN net :
    (app = "unified" /\ IsReq(net[i], "pi-get"))
      => /\ form.customerDetailsComplete
         /\ form.customerDetails.name # ""
         /\ emailOk(form.customerDetails.email)
         /\ ctx.customerDetails = [name |-> form.customerDetails.name,
                                   email |-> form.customerDetails.email]

\* the unified form is issuing a pi-get request
C13_Witness ==
  /\ app = "unified"
  /\ \E i \in DOMAIN net : IsReq(net[i], "pi-get")
  /\ ctx.flowState = FLOW_STATES.AWAITING_STRIPE

\* C14: the flow state turns completed only in a step that ends a handler of
\* the current attempt (not one started before a reset) whose update call
\* answered ok.
C14_CompletedOnlyAfterUpdateOk ==
  [][ (ctx.flowState # FLOW_STATES.COMPLETED
         /\ ctx'.flowState = FLOW_STATES.COMPLETED)
        => \E t \in tasks \ tasks' :
             /\ ~t.stale
             /\ \/ t.upd = "ok"
                \/ /\ t.upd = "pending"
                   /\ \E i \in DOMAIN net' :
                        /\ IsResp(net'[i], "update") /\ net'[i].out = "ok"
                        /\ net'[i].uid = t.bk.uid ]_vars

\* C15: when a deposit-get call has answered ok the payment type in the store
\* is noshow if the response's code is 1 and deposit otherwise, whatever the
\* card flag of the hold.
C15_ClassificationFromCode ==
  \A i \in DOMAIN net :
    (IsResp(net[i], "deposit-get") /\ net[i].out = "ok")
      => ctx.stripe.paymentType =
           IF net[i].code = 1 THEN "noshow" ELSE "deposit"

\* a hold with card = 2 whose deposit-get answered code 1
C15_Witness ==
  /\ ctx.booking # NoBooking /\ ctx.booking.card = 2
  /\ \E i \in DOMAIN net :
       /\ IsResp(net[i], "deposit-get") /\ net[i].out = "ok"
       /\ net[i].code = 1 /\ ~net[i].stale
  /\ ctx.stripe.paymentType = "noshow"

\* C16: a handler whose attempt is classified no-show never issues a refund
\* request, also not in the step in which its update fails.
C16_NoRefundForNoShow ==
  [][ \A t \in tasks :
        t.st.paymentType = "noshow"
          => ~\E i \in DOMAIN net' :
                IsReq(net'[i], "refund") /\ net'[i].uid = t.bk.uid ]_vars

\* the update of a no-show attempt with a confirmed card has just failed
C16_Witness ==
  /\ ctx.stripe.paymentType = "noshow"
  /\ ctx.paymentMethod # NoId
  /\ \E i \in DOMAIN net :
       IsResp(net[i], "update") /\ net[i].out # "ok" /\ ~net[i].stale
  /\ ~\E i \in DOMAIN net : IsReq(net[i], "refund")

C18_DeclineGivesError ==
  \A i \in DOMAIN net :
    ( /\ net[i].dir = "resp"
      /\ net[i].op \in {"confirmCardSetup", "confirmCardPayment"}
      /\ net[i].out = "fail" /\ ~net[i].stale
      /\ ~\E t \in tasks : t.bk.uid = net[i].uid /\ t.pay = "fail" )
      => /\ ctx.flowState = FLOW_STATES.ERROR
         /\ ctx.error \in {"Payment processing failed", "Failed to complete booking"}

\* C19: with a hold of card = 0 in the store and the customer details
\* collected and valid, the completion (restore, then update) can be started
\* although no pi-get or deposit-get call has been made; the witness is such
\* an attempt completed.
C19_NoCardFinalizeEnabled ==
  /\ ( /\ app = "unified"
       /\ ctx.booking # NoBooking /\ ctx.booking.card = 0
       /\ ctx.stripe.clientSecret = NoId /\ ctx.stripe.paymentType = NULL
       /\ form.customerDetailsComplete /\ ~form.bookingComplete
       /\ validateFullForm(form.customerDetails)
       /\ ~form.isLoading /\ CanStart )
       => ENABLED completeBooking
  /\ ( /\ app # "unified"
       /\ ctx.booking # NoBooking /\ ctx.booking.card = 0
       /\ ctx.stripe.clientSecret = NoId /\ ctx.stripe.paymentType = NULL
       /\ ctx.flowState = FLOW_STATES.COLLECTING_USER
       /\ validateForm(udf.formData)
       /\ ~udf.isLoading /\ ~udf.showSuccess /\ CanStart )
       => ENABLED UserDetailsForm_handleSubmit

\* a card = 0 attempt completed by an ok update, with no keys and no payment
\* type in the store
C19_Witness ==
  /\ ctx.flowState = FLOW_STATES.COMPLETED
  /\ ctx.booking # NoBooking /\ ctx.booking.card = 0
  /\ ctx.stripe.clientSecret = NoId /\ ctx.stripe.paymentType = NULL
  /\ \E i \in DOMAIN net :
       IsResp(net[i], "update") /\ net[i].out = "ok" /\ ~net[i].stale

\* C20: every pi-get, deposit-get, Stripe confirm and pm-id request is issued
\* by a handler whose booking came from a hold with card > 0.
C20_StripeFlowOnlyWithCard ==
  [][ \A i \in DOMAIN net' :
        ( /\ net'[i].dir = "req"
          /\ net'[i].op \in {"pi-get", "deposit-get", "confirmCardSetup",
                              "confirmCardPayment", "pm-id"} )
          => \E t \in tasks' :
               /\ t.bk # NoBooking
               /\ t.bk.uid = net'[i].uid
               /\ t.bk.card > 0 ]_vars

\* a hold has just answered card = 0 and its handler ended without a request
C20_Witness ==
  /\ ctx.booking # NoBooking /\ ctx.booking.card = 0
  /\ tasks = {}
  /\ Len(net) = 1
  /\ IsResp(net[1], "hold") /\ net[1].out = "ok" /\ ~net[1].stale

\* C21: once the store holds a client secret it keeps that secret; the only
\* step that changes it is one that returns the whole stripe context to its
\* initial value (a reset).
C21_ClientSecretSetOnce ==
  [][ (ctx.stripe.clientSecret # NoId
         /\ ctx'.stripe.clientSecret # ctx.stripe.clientSecret)
        => ctx' = SET_FLOW_STATE(initialState, ctx'.flowState) ]_vars

\* an attempt holds its client secret and a later stage of it is under way
C21_Witness ==
  /\ ctx.booking # NoBooking
  /\ ctx.stripe.clientSecret = <<"pi", ctx.booking.uid>>
  /\ ctx.paymentMethod # NoId
  /\ \A t \in tasks : ~t.stale

\* C22: once the store holds a booking its uid and created stay as they are;
\* the only step after which they differ is one that returns the store to
\* its initial value (a reset).
C22_BookingIdentityFixed ==
  [][ ( /\ ctx.booking # NoBooking
        /\ \/ ctx'.booking.uid # ctx.booking.uid
           \/ ctx'.booking.created # ctx.booking.created )
        => ctx' = SET_FLOW_STATE(initialState, ctx'.flowState) ]_vars

\* the booking of a hold is still in the store when its update is answered
C22_Witness ==
  /\ ctx.booking # NoBooking
  /\ ctx.booking.created = 1000 + ctx.booking.uid
  /\ \E i \in DOMAIN net :
       /\ IsResp(net[i], "update") /\ ~net[i].stale
       /\ net[i].uid = ctx.booking.uid

OpRank(op) ==
  CASE op = "hold" -> 1
    [] op = "pi-get" -> 2
    [] op = "deposit-get" -> 3
    [] op = "restore" -> 4
    [] op \in {"confirmCardSetup", "confirmCardPayment", "update"} -> 5
    [] op = "pm-id" -> 6
    [] OTHER -> 7

\* C24: no operation retries automatically.  A step that delivers a response
\* to a handler issues only requests of later stages than the one answered,
\* never the answered request again, and no step issues the same request
\* twice; so every request of a handler is sent once per invocation and a
\* failed one is sent again only by a new invocation.
C24_NoAutomaticRetry ==
  \A i, j \in DOMAIN net :
    /\ (net[i].dir = "resp" /\ net[j].dir = "req")
         => OpRank(net[j].op) > OpRank(net[i].op)
    /\ (i # j /\ net[i].dir = "req" /\ net[j].dir = "req")
         => net[i].op # net[j].op

\* the user presses "fetch keys" again after the first pi-get failed
C24_Witness ==
  /\ net # << >>
  /\ \A i \in DOMAIN net : IsReq(net[i], "pi-get")
  /\ ctx.error = "Failed to retrieve Stripe keys"
  /\ ~form.keysLoaded
  /\ \E t \in tasks : t.h = "fetchStripeKeys" /\ ~t.stale

\* customer details with a name, a well-formed e-mail and a well-formed phone
WellFormed(d) ==
  /\ d.name # ""
  /\ d.email # "" /\ emailOk(d.email)
  /\ d.phone # "" /\ phoneOk(d.phone)

DetailOps == {"restore", "update", "confirmCardSetup", "confirmCardPayment", "pm-id"}

FailedStep ==
  \E t \in tasks :
    /\ ~t.stale
    /\ \A u \in tasks' : u.id # t.id
    /\ \/ \E i \in DOMAIN net' :
            net'[i].dir = "resp" /\ net'[i].out # "ok" /\ net'[i].uid = t.bk.uid
       \/ t.pay = "fail"
       \/ t.upd = "fail"

\* C26: when a stage operation fails the store enters the error state with
\* the error detail and nothing accumulated is rolled back: the booking and
\* the payment context are left as they were, and a payment method reference
\* that was recorded stays recorded.
C26_FailureKeepsProgress ==
  [][ FailedStep =>
        /\ ctx'.flowState = FLOW_STATES.ERROR
        /\ ctx'.error # NULL
        /\ ctx'.booking = ctx.booking
        /\ ctx'.stripe = ctx.stripe
        /\ ctx.paymentMethod # NoId => ctx'.paymentMethod = ctx.paymentMethod ]_vars

\* the next step issues a pm-id request for the recorded payment method and
\* nothing else
AttachAlone ==
  /\ Next
  /\ net' # << >>
  /\ \A i \in DOMAIN net' :
       IsReq(net'[i], "pm-id") /\ ~net'[i].stale /\ net'[i].pm = ctx.paymentMethod

\* C27: after a successful confirmation whose pm-id call failed, the attach
\* can be invoked again on its own for the payment method that was
\* confirmed.
C27_AttachRetryable ==
  ( /\ ctx.paymentMethod # NoId
    /\ \E i \in DOMAIN net :
         IsResp(net[i], "pm-id") /\ net[i].out # "ok" /\ ~net[i].stale )
    => ENABLED AttachAlone

\* C28: customer details are not sent before the finalize stage.  A request
\* other than update that is not issued together with the update carries no
\* name, e-mail or phone of the customer.
C28_NoDetailsBeforeFinalize ==
  \A i \in DOMAIN net :
    ( /\ net[i].dir = "req"
      /\ net[i].op # "update"
      /\ \A j \in DOMAIN net : ~IsReq(net[j], "update") )
      => net[i].cust = NoDetails

\* the step in which the hold expires: the hold stops being unexpired and
\* the user has not reset the flow
HoldExpires ==
  /\ ctx.holdExpiry = "armed"
  /\ ctx'.holdExpiry # "armed"
  /\ \A i \in DOMAIN net' : net'[i].op # "reset"

\* what is enabled of the stage operations and of the reset
StageEnabled ==
  << ENABLED handleSubmit, ENABLED handleCustomerDetailsChange,
     ENABLED saveCustomerDetails, ENABLED fetchStripeKeys,
     ENABLED fetchDepositInfo, ENABLED proceedToCardEntry,
     ENABLED proceedToUserDetails, ENABLED initializeStripe,
     ENABLED cardChange, ENABLED completeBooking, ENABLED Reset >>

\* C29: the expiry of the hold is display-only.  The step in which the hold
\* expires shows the warning and changes nothing else: the store apart from
\* the clock, the forms, the waiting handlers and what the user can invoke
\* are as before.
C29_ExpiryDisplayOnly ==
  [][ HoldExpires =>
        /\ header'.showExpiryWarning
        /\ [ctx' EXCEPT !.holdExpiry = ctx.holdExpiry] = ctx
        /\ UNCHANGED <<app, form, stripePromise, bf, spf, udf, tasks, holds>>
        /\ StageEnabled' = StageEnabled ]_vars

\* the hold has expired, the warning is shown, and the finalize request of
\* that hold has been sent all the same
C29_Witness ==
  /\ Unified
  /\ ctx.holdExpiry = "passed"
  /\ header.showExpiryWarning
  /\ \E i \in DOMAIN net : IsReq(net[i], "update") /\ ~net[i].stale

\* C30 as stated: amounts are integer minor units everywhere and nothing
\* divided by 100 is stored in the flow state or sent in a request.
C30_NoDividedAmountSent ==
  /\ ctx.stripe.amount \in Totals \cup {-1}
  /\ \A i \in DOMAIN net :
       net[i].dir = "req" => net[i].totalFloat = NoFloat

\* C30 amended: the flow state holds the amount in minor units as the
\* provider gave it, the total of a pm-id request is that amount, and the
\* only divided value that is sent is the totalFloat parameter of pm-id,
\* which is the total divided by 100.
C30_OnlyTotalFloatDivided ==
  /\ ctx.stripe.amount \in Totals \cup {-1}
  /\ \A i \in DOMAIN net :
       net[i].dir = "req" =>
         IF net[i].op = "pm-id"
           THEN /\ net[i].total \in Totals
                /\ ~net[i].stale => net[i].total = ctx.stripe.amount
                /\ net[i].totalFloat.units * 100 + net[i].totalFloat.cents
                     = net[i].total
                /\ net[i].totalFloat.cents \in 0..99
           ELSE net[i].total = -1 /\ net[i].totalFloat = NoFloat

\* a pm-id request for an amount of 2550 cents goes out with total 2550 and
\* totalFloat 25.50
C30_Witness ==
  \E i \in DOMAIN net :
    /\ IsReq(net[i], "pm-id") /\ ~net[i].stale
    /\ net[i].total = 2550
    /\ net[i].totalFloat = [units |-> 25, cents |-> 50]

\* C31: the keys stage succeeds for a pi-get response that has the client
\* secret and the publishable key under any of their names, and stores the
\* secret of the response and the publishable key.
C31_KeysUnderAnyAlias ==
  \A i \in DOMAIN net :
    (IsResp(net[i], "pi-get") /\ net[i].names \in Aliases /\ ~net[i].stale)
      => /\ ctx.stripe.clientSecret = net[i].pm
         /\ ctx.stripe.publicKey = "pk_test"
         /\ ctx.flowState # FLOW_STATES.ERROR

\* C32: an operation's request and its response or error are logged before the
\* flow state is changed on its account.  The log is emptied only by a reset,
\* which also makes the flow state idle; so whenever the flow state is not idle
\* the log holds at least one entry.
C32_LoggedBeforeStateChange ==
  ctx.flowState # FLOW_STATES.IDLE => ctx.logs # {}

\* the transitions of the documented state diagram, with the card branch of
\* holding decided by the booking the step leaves stored
DocumentedTransition(c, d) ==
  LET a == c.flowState
      b == d.flowState
  IN \/ a = FLOW_STATES.IDLE /\ b = FLOW_STATES.HOLDING
     \/ a = FLOW_STATES.HOLDING /\ b = FLOW_STATES.AWAITING_STRIPE /\ d.booking.card > 0
     \/ a = FLOW_STATES.HOLDING /\ b = FLOW_STATES.COLLECTING_USER /\ d.booking.card = 0
     \/ a = FLOW_STATES.AWAITING_STRIPE /\ b = FLOW_STATES.ENTERING_CARD
     \/ a = FLOW_STATES.ENTERING_CARD /\ b = FLOW_STATES.CARD_CONFIRMED
     \/ a = FLOW_STATES.CARD_CONFIRMED /\ b = FLOW_STATES.COLLECTING_USER
     \/ a = FLOW_STATES.COLLECTING_USER /\ b = FLOW_STATES.COMPLETED
     \/ b = FLOW_STATES.ERROR

\* the step resets the store: on its own it ends idle, followed by the submit
\* of a new hold in the same handler it ends holding
ResetStep ==
  /\ \E i \in DOMAIN net' : net'[i].op = "reset"
  /\ ctx'.flowState \in {FLOW_STATES.IDLE, FLOW_STATES.HOLDING}

\* C33: the flow state is always one of the documented states and every
\* change of it is a documented transition, a failure entering error, or a
\* reset.
C33_DocumentedTransitions ==
  [][ /\ ctx'.flowState \in {FLOW_STATES[k] : k \in DOMAIN FLOW_STATES}
      /\ ctx'.flowState # ctx.flowState
            => (ResetStep \/ DocumentedTransition(ctx, ctx')) ]_vars

\* C34: a /web/hold request is issued only from the idle flow state.
C34_StartOnlyWhenIdle ==
  [][ (\E i \in DOMAIN net' : IsReq(net'[i], "hold"))
        => ctx.flowState = FLOW_STATES.IDLE ]_vars

\* the request that ends an attempt with a card: the finalising update in
\* the three-form flow, the attach in the unified form (which finalises in
\* parallel with the confirmation and attaches last)
LastOp == IF Unified THEN "pm-id" ELSE "update"

\* the last answer of the documented deposit scenario: the first hold of the
\* session asked for a card with card = 2 and perHead = 3000, deposit-get
\* answered code 2 with the total, nothing has failed, and the attempt's last
\* request is answered ok
DepositHappyEnd ==
  /\ holds = 1
  /\ \A e \in ctx.logs : e # "error"
  /\ ctx.booking = [uid |-> 1, created |-> 1001, card |-> 2, perHead |-> 3000]
  /\ ctx.stripe.paymentType = "deposit"
  /\ \E i \in DOMAIN net' :
        IsResp(net'[i], LastOp) /\ net'[i].out = "ok" /\ ~net'[i].stale

\* C35: the deposit scenario in which every call succeeds ends in the
\* completed state with the total of deposit-get as the stored amount.
C35_DepositHappyPath ==
  [][ DepositHappyEnd
        => /\ ctx'.flowState = FLOW_STATES.COMPLETED
           /\ \E a \in Totals : ctx'.stripe.amount = a ]_vars

\* the three-form flow has just been completed by the answer to its
\* finalising update: first hold, card = 2, deposit of 2550, nothing failed
C35_Witness ==
  /\ app = "single"
  /\ holds = 1
  /\ \A e \in ctx.logs : e # "error"
  /\ ctx.booking = [uid |-> 1, created |-> 1001, card |-> 2, perHead |-> 3000]
  /\ ctx.stripe.paymentType = "deposit"
  /\ ctx.stripe.amount = 2550
  /\ ctx.paymentMethod # NoId
  /\ ctx.flowState = FLOW_STATES.COMPLETED
  /\ \E i \in DOMAIN net :
        IsResp(net[i], "update") /\ net[i].out = "ok" /\ ~net[i].stale /\ net[i].uid = 1

\* C36: a confirmation a live handler issues is confirmCardPayment exactly
\* when the stored classification is deposit and confirmCardSetup exactly when
\* it is noshow.
C36_ConfirmMatchesClassification ==
  \A i \in DOMAIN net :
    (net[i].dir = "req" /\ ~net[i].stale
       /\ net[i].op \in {"confirmCardPayment", "confirmCardSetup"})
      => /\ net[i].op = "confirmCardPayment" <=> ctx.stripe.paymentType = "deposit"
         /\ net[i].op = "confirmCardSetup" <=> ctx.stripe.paymentType = "noshow"

\* C37: a completed flow whose booking requires a card has the payment method
\* of a successful confirmation for that booking on record (a pm-id attach is
\* only ever made with a recorded payment method).
C37_CompletedCardHasPayment ==
  (ctx.flowState = FLOW_STATES.COMPLETED /\ ctx.booking.card > 0)
    => ctx.paymentMethod = <<"pm", ctx.booking.uid>>

\* C38: no live handler issues a Stripe confirmation for a booking whose
\* confirmation has already succeeded (its payment method is on record).
C38_NoSecondConfirmation ==
  [][ \A i \in DOMAIN net' :
        (net'[i].dir = "req" /\ ~net'[i].stale
           /\ net'[i].op \in {"confirmCardPayment", "confirmCardSetup"})
          => ctx.paymentMethod # <<"pm", net'[i].uid>> ]_vars

\* the requests that go through the axios client and its interceptors
EveveOps == {"hold", "pi-get", "deposit-get", "restore", "update", "pm-id"}

\* C39: a step in which an Eveve request is answered with a transport or HTTP
\* failure ends in the error state with an error stored, whoever made the
\* request and whether or not a reset has happened since.
C39_HttpFailureEntersError ==
  [][ (\E i \in DOMAIN net' :
         /\ net'[i].dir = "resp" /\ net'[i].op \in EveveOps
         /\ net'[i].out = "httperr")
        => /\ ctx'.flowState = FLOW_STATES.ERROR
           /\ ctx'.error # NULL ]_vars

\* the restore request of the step-by-step validateBooking, made before a
\* reset, has just failed at HTTP level: the handler reports a card error
\* only, and the reset store is in the error state with the interceptor's
\* error
C39_Witness ==
  /\ app = "stepwise"
  /\ \E i \in DOMAIN net :
        /\ IsResp(net[i], "restore") /\ net[i].out = "httperr" /\ net[i].stale
  /\ tasks = {}
  /\ ctx.booking = NoBooking
  /\ ctx.flowState = FLOW_STATES.ERROR
  /\ ctx.error = "http"

\* C40: from the completed state the flow state changes only by a reset (on
\* its own or at the start of a new attempt), and until then no request is
\* issued for the completed booking.
C40_CompletedAbsorbing ==
  [][ (ctx.flowState = FLOW_STATES.COMPLETED /\ ~ResetStep)
        => /\ ctx'.flowState = FLOW_STATES.COMPLETED
           /\ \A i \in DOMAIN net' :
                net'[i].dir = "req" => net'[i].uid # ctx.booking.uid ]_vars

====
